---- MODULE Spec2Model ----
(***************************************************************************)
(* Order lifecycle of the coffee-shop point of sale.                       *)
(*                                                                         *)
(* The persistent store is the relational database of                      *)
(* supabase/migrations (tables menu_items, orders, order_items,            *)
(* kds_tickets).  Clients are browser sessions running the order-entry     *)
(* and kitchen-display components; each keeps a local copy of the orders   *)
(* read-model and of the menu, and issues commands through lib/supabase.   *)
(* Every database statement is atomic and may fail (network or server      *)
(* error, or a violated table constraint).  A mounted order list is fed    *)
(* by the change events of table orders and by the getOrders refresh that  *)
(* follows each event.  db/indexedDB keeps a mirror of the collections of  *)
(* its own server in the browser's localStorage.  The effects of the       *)
(* components open and release the realtime channels, createOrder notifies *)
(* the configured webhook, the menu form rewrites an item with its         *)
(* ingredients, and the Login of each browser tab counts failed PINs in    *)
(* its state and in the shared localStorage.                               *)
(***************************************************************************)
EXTENDS Integers, Sequences, FiniteSets, TLC

\* ------------------------------------------------------------------ bounds
MaxOrders == 1      \* orders ever inserted
MaxClock == 1       \* readings of NOW()
MaxQty == 2         \* quantity of one cart line
MaxFeed == 2        \* change events waiting for one subscriber
MaxInflight == 2    \* getOrders requests one client has not yet seen return
MaxMirror == 2      \* orders that createOrder of the local mirror may pile up
MaxIngredients == 2 \* ingredient rows of one menu item

MenuIds == {"A", "B"}
Clients == {"c1", "c2"}
Cashiers == {"c1"}

\* ------------------------------------------------------- schema enumerations
NULL == "null"
OrderStatus == {"pending", "completed", "cancelled"}
TicketStatus == {"new", "preparing", "ready"}
PaymentMethods == {"qris", "cash", "transfer"}
StorageKeys == {"kopi_materials", "kopi_menu_items", "kopi_orders", "kopi_kds_tickets"}
Prices == {1, 2}

VARIABLES
    menu_items,     \* store: menu item id -> price
    orders,         \* store: order id -> [status, payment, total]
    order_items,    \* store: rows [order_id, menu_item_id, quantity, price_at_time]
    kds_tickets,    \* store: rows [order_id, status, updated_at]
    nextId,         \* the id the next inserted order row gets
    clock,          \* the database's NOW()
    menuView,       \* client -> its menuItems state (menu item id -> price)
    currentOrder,   \* client -> its cart: lines [menu_item, quantity, price_at_time]
    ordersView,     \* client -> its orders state: one card [id, status, column] per record
    subscribed,     \* client -> whether its subscription to table orders is open
    feed,           \* client -> the change events of table orders not yet delivered to it
    inflight,       \* client -> its getOrders requests not yet returned, oldest first
    ingredients,    \* store: menu item id -> the costs of its ingredient rows
    menu_item_cost, \* store: menu item id -> column cost of its menu_items row
    localStorage,   \* browser storage: key -> the JSON value stored under it
    phase,          \* component -> where its effect is: idle, observing, stopped
    channels,       \* the open realtime channels: records [owner, topic, table]
    loading,        \* component -> its loading flag
    notified,       \* the channels whose callback has run
    webhook_settings, \* store: the single row [is_enabled, url] of webhook_settings
    posts,          \* the orders whose new_order webhook was POSTed
    console,        \* the orders for which 'Failed to send webhook' was logged
    attempts,       \* tab -> the state attempts of its Login: [count, timestamp]
    loginAttempts,  \* browser storage: the value of key loginAttempts
    isAuthenticated, \* browser storage: whether key isAuthenticated is 'true'
    screen,         \* tab -> what its App renders: login or dashboard
    enabled,        \* tab -> whether its last render left the Login button enabled
    now,            \* Date.now(), in milliseconds
    lockout,        \* the failed verifications in a row and the time of the fifth
    last            \* the command that ran in the last step, and its outcome

store == <<menu_items, orders, order_items, kds_tickets, nextId, clock>>
\* the effects of the mounted components
effects == <<phase, channels, loading, notified>>
\* what the order lists and the mirror leave alone
webhook == <<webhook_settings, posts, console>>
login == <<attempts, loginAttempts, isAuthenticated, screen, enabled, now, lockout>>
aside == <<effects, webhook, login>>
\* what the order commands of a session leave alone
other == <<subscribed, inflight, ingredients, menu_item_cost, localStorage, aside>>
rest == <<feed, other>>
\* what the components outside the order lists leave alone
core == <<store, menuView, currentOrder, ordersView, feed, subscribed, inflight,
          ingredients, menu_item_cost, localStorage>>
vars == <<menu_items, orders, order_items, kds_tickets, nextId, clock,
          menuView, currentOrder, ordersView, rest, last>>

\* ------------------------------------------------------------ read helpers
ItemsOf(o) == SelectSeq(order_items, LAMBDA r : r.order_id = o)
TicketsOf(o) == SelectSeq(kds_tickets, LAMBDA r : r.order_id = o)

\* items.reduce((sum, item) => sum + item.price_at_time * item.quantity, 0)
RECURSIVE SumItems(_)
SumItems(items) ==
    IF items = <<>> THEN 0
    ELSE SumItems(SubSeq(items, 1, Len(items) - 1))
         + items[Len(items)].price_at_time * items[Len(items)].quantity

\* the input shape of createOrder's items
InputOf(rows) ==
    [i \in 1..Len(rows) |->
        [menu_item_id |-> rows[i].menu_item_id,
         quantity |-> rows[i].quantity,
         price_at_time |-> rows[i].price_at_time]]

NoOrder == [status |-> NULL, payment |-> NULL, total |-> 0]

NoEvent == [eventType |-> NULL, id |-> 0, status |-> NULL]

NoResponse == [status |-> NULL, body |-> <<>>]

NoCommand ==
    [op |-> "none", client |-> NULL, order |-> 0, arg |-> NULL, res |-> NULL,
     items |-> <<>>, beforeOrder |-> NoOrder, beforeTickets |-> <<>>,
     event |-> NoEvent, beforeView |-> <<>>, snapshot |-> <<>>, position |-> 0,
     key |-> NULL, response |-> NoResponse, returned |-> <<>>, stored |-> <<>>]

\* ------------------------------------------------------------ the change feed
\* postgres_changes on table orders: payload.new is the row written,
\* payload.old carries the primary key of the row deleted
ChangeEvent(eventType, id, status) ==
    [eventType |-> eventType, id |-> id, status |-> status]

\* .on('postgres_changes', { event: '*', schema: 'public', table: 'orders' },
\* callback): every client whose subscription is open is sent the events
Publish(events) ==
    /\ \A c \in DOMAIN feed :
          subscribed[c] => Len(feed[c]) + Len(events) <= MaxFeed
    /\ feed' = [c \in DOMAIN feed |->
                  IF subscribed[c] THEN feed[c] \o events ELSE feed[c]]


\* ------------------------------------------------------------- createOrder
\* A failure of the network or the server in one of createOrder's three
\* inserts; "none" lets the table constraints alone decide.
Failures == {"none", "order", "items", "kds"}

\* order_items: CHECK (quantity > 0), CHECK (price_at_time >= 0),
\* menu_item_id REFERENCES menu_items(id); one multi-row insert is one statement
ItemRowsAccepted(items) ==
    \A i \in 1..Len(items) :
        /\ items[i].quantity > 0
        /\ items[i].price_at_time >= 0
        /\ items[i].menu_item_id \in DOMAIN menu_items

\* .from('orders').insert({... total: items.reduce(...), status: 'pending'})
NewOrderRow(items) ==
    [status |-> "pending", payment |-> NULL, total |-> SumItems(items)]

\* order.items.map(item => ({ order_id: orderData.id, ...item }))
NewItemRows(id, items) ==
    [i \in 1..Len(items) |->
        [order_id |-> id,
         menu_item_id |-> items[i].menu_item_id,
         quantity |-> items[i].quantity,
         price_at_time |-> items[i].price_at_time]]

\* a ticket inserted in another column than 'new'
NewTicketRow_Preparing(id) ==
    [order_id |-> id, status |-> "preparing", updated_at |-> clock]

\* .from('kds_tickets').insert({ order_id: orderData.id, status: 'new' })
NewTicketRow(id) ==
    [order_id |-> id, status |-> "new", updated_at |-> clock]

\* which of the three inserts take effect: each runs only if the one before
\* it returned no error (if (orderError) throw ...; if (itemsError) throw ...).
\* An insert of no rows is accepted unless the request itself fails.
createOrderWrites(items, fail) ==
    LET orderOk == fail # "order"
        itemsOk == orderOk /\ fail # "items" /\ ItemRowsAccepted(items)
        kdsOk == itemsOk /\ fail # "kds"
    IN [order |-> orderOk, items |-> itemsOk, kds |-> kdsOk]

\* createOrder returns orderData after the third insert, throws otherwise
createOrderResult(items, fail) ==
    IF createOrderWrites(items, fail).kds THEN "ok" ELSE "error"

\* the effect of createOrder on the store, and the event of its first insert
createOrder(items, fail) ==
    LET w == createOrderWrites(items, fail)
    IN /\ nextId <= MaxOrders
       /\ Publish(IF w.order THEN <<ChangeEvent("INSERT", nextId, "pending")>>
                  ELSE <<>>)
       /\ orders' = IF w.order THEN orders @@ (nextId :> NewOrderRow(items))
                    ELSE orders
       /\ nextId' = IF w.order THEN nextId + 1 ELSE nextId
       /\ order_items' = IF w.items THEN order_items \o NewItemRows(nextId, items)
                         ELSE order_items
       /\ kds_tickets' = IF w.kds THEN Append(kds_tickets, NewTicketRow(nextId))
                         ELSE kds_tickets

\* createOrder called with an input of its declared type: no line, one line,
\* or a line for each of the two menu items; a quantity below, at or above 1
ApiQuantities == {0, 1, 2}
ApiItem(m) == [menu_item_id : {m}, quantity : ApiQuantities, price_at_time : Prices]
ApiInputs ==
    {<<>>} \cup {<<x>> : x \in ApiItem("A") \cup ApiItem("B")}
    \cup (ApiItem("A") \X ApiItem("B"))

\* a well-formed order of one line
OneLine == <<[menu_item_id |-> "A", quantity |-> 1, price_at_time |-> 1]>>

createOrderCall(items, fail) ==
    /\ createOrder(items, fail)
    /\ last' = [NoCommand EXCEPT !.op = "createOrder", !.order = nextId,
                                 !.items = items,
                                 !.res = createOrderResult(items, fail)]
    /\ UNCHANGED <<menu_items, clock, menuView, currentOrder, ordersView, other>>

\* ------------------------------------------------------ order entry: the cart
\* addToOrder(menuItem): menuItem is an active item of the client's menuItems
addToOrder(c, m) ==
    LET cart == currentOrder[c]
        menuItem == [id |-> m, price |-> menuView[c][m]]
        existing == {i \in 1..Len(cart) : cart[i].menu_item.id = m}
    IN /\ IF existing # {}
          THEN /\ \A i \in existing : cart[i].quantity < MaxQty
               /\ currentOrder' = [currentOrder EXCEPT ![c] =
                    [i \in 1..Len(cart) |->
                        IF cart[i].menu_item.id = m
                        THEN [cart[i] EXCEPT !.quantity = cart[i].quantity + 1]
                        ELSE cart[i]]]
          ELSE /\ currentOrder' = [currentOrder EXCEPT ![c] =
                    Append(cart, [menu_item |-> menuItem, quantity |-> 1,
                                  price_at_time |-> menuItem.price])]
       /\ last' = [NoCommand EXCEPT !.op = "addToOrder", !.client = c]
       /\ UNCHANGED <<store, menuView, ordersView, rest>>

\* updateQuantity(menuItemId, quantity): the - and + buttons of a cart line
updateQuantity(c, m, quantity) ==
    LET cart == currentOrder[c]
    IN /\ \E i \in 1..Len(cart) : cart[i].menu_item.id = m
       /\ currentOrder' = [currentOrder EXCEPT ![c] =
            IF quantity <= 0
            THEN SelectSeq(cart, LAMBDA item : item.menu_item.id # m)
            ELSE [i \in 1..Len(cart) |->
                    IF cart[i].menu_item.id = m
                    THEN [cart[i] EXCEPT !.quantity = quantity]
                    ELSE cart[i]]]
       /\ last' = [NoCommand EXCEPT !.op = "updateQuantity", !.client = c]
       /\ UNCHANGED <<store, menuView, ordersView, rest>>

\* currentOrder.map(item => ({menu_item_id: item.menu_item.id,
\*   quantity: item.quantity, price_at_time: item.menu_item.price}))
CartItems(cart) ==
    [i \in 1..Len(cart) |->
        [menu_item_id |-> cart[i].menu_item.id,
         quantity |-> cart[i].quantity,
         price_at_time |-> cart[i].menu_item.price]]

submitOrder(c, fail) ==
    LET cart == currentOrder[c]
        items == CartItems(cart)
    IN IF Len(cart) = 0
       THEN /\ last' = [NoCommand EXCEPT !.op = "submitOrder", !.client = c,
                                         !.res = "alert"]
            /\ UNCHANGED <<store, menuView, currentOrder, ordersView, rest>>
       ELSE /\ createOrder(items, fail)
            /\ currentOrder' = IF createOrderResult(items, fail) = "ok"
                               THEN [currentOrder EXCEPT ![c] = <<>>]
                               ELSE currentOrder
            /\ last' = [NoCommand EXCEPT !.op = "submitOrder", !.client = c,
                                         !.order = nextId, !.items = items,
                                         !.res = createOrderResult(items, fail)]
            /\ UNCHANGED <<menu_items, clock, menuView, ordersView, other>>

\* ------------------------------------------------- the clients' collections
\* grouped: the column of a pending order is the status of its last ticket,
\* 'new' when it has none
Column(tickets) ==
    LET kdsTicket == IF Len(tickets) > 0 THEN tickets[Len(tickets)].status ELSE NULL
    IN IF kdsTicket = "preparing" THEN "preparing"
       ELSE IF kdsTicket = "ready" THEN "ready" ELSE "new"

\* a record of the orders collection, projected on what the components
\* read: the order's id, its status, for a pending order the kitchen column
\* that its kds_tickets put it in, and whether it has the arrays items and
\* kds_tickets that the view joins to the row
OrderCard(id, status, tickets) ==
    [id |-> id, status |-> status,
     column |-> IF status = "pending" THEN Column(tickets) ELSE NULL,
     joined |-> TRUE]

\* FROM orders o LEFT JOIN order_items oi ... LEFT JOIN kds_tickets kt ...:
\* the joined rows of order o, each naming an order_items row and a
\* kds_tickets row of the order by its position (0: the side is NULL)
JoinedRows(o) ==
    LET ni == Len(ItemsOf(o))
        nt == Len(TicketsOf(o))
        wi == IF ni = 0 THEN 1 ELSE ni
        wt == IF nt = 0 THEN 1 ELSE nt
    IN [k \in 1..(wi * wt) |->
            [oi |-> IF ni = 0 THEN 0 ELSE ((k - 1) \div wt) + 1,
             kt |-> IF nt = 0 THEN 0 ELSE ((k - 1) % wt) + 1]]

\* the row of v_orders_with_items for order o (GROUP BY o.id, ...):
\* COALESCE(json_agg(...) FILTER (WHERE oi.id IS NOT NULL), '[]') as items,
\* COALESCE(json_agg(...) FILTER (WHERE kt.id IS NOT NULL), '[]') as kds_tickets
v_orders_with_items(o) ==
    LET withItem == SelectSeq(JoinedRows(o), LAMBDA r : r.oi # 0)
        withTicket == SelectSeq(JoinedRows(o), LAMBDA r : r.kt # 0)
    IN [id |-> o,
        items |-> [k \in 1..Len(withItem) |->
                      [id |-> withItem[k].oi,
                       menu_item_id |-> ItemsOf(o)[withItem[k].oi].menu_item_id,
                       quantity |-> ItemsOf(o)[withItem[k].oi].quantity]],
        kds_tickets |-> [k \in 1..Len(withTicket) |->
                      [id |-> withTicket[k].kt,
                       status |-> TicketsOf(o)[withTicket[k].kt].status]]]

\* .order('date', { ascending: false }): orders are dated as they are created
RECURSIVE NewestFirst(_)
NewestFirst(ids) ==
    IF ids = {} THEN <<>>
    ELSE LET newest == CHOOSE o \in ids : \A x \in ids : x <= o
         IN <<newest>> \o NewestFirst(ids \ {newest})

\* getOrders: the rows of v_orders_with_items
getOrders ==
    LET ids == NewestFirst(DOMAIN orders)
    IN [i \in 1..Len(ids) |->
            OrderCard(ids[i], orders[ids[i]].status, TicketsOf(ids[i]))]

\* the cards of order o that client c shows as pending
PendingCards(c, o) ==
    {i \in 1..Len(ordersView[c]) :
        ordersView[c][i].id = o /\ ordersView[c][i].status = "pending"}

\* const data = await getOrders(); setOrders(data || [])
loadOrders(c) ==
    /\ ordersView[c] # getOrders
    /\ ordersView' = [ordersView EXCEPT ![c] = getOrders]
    /\ last' = [NoCommand EXCEPT !.op = "loadOrders", !.client = c]
    /\ UNCHANGED <<store, menuView, currentOrder, rest>>

\* const data = await getMenuItems(); setMenuItems(data || [])
loadMenu(c) ==
    /\ menuView[c] # menu_items
    /\ menuView' = [menuView EXCEPT ![c] = menu_items]
    /\ last' = [NoCommand EXCEPT !.op = "loadMenu", !.client = c]
    /\ UNCHANGED <<store, currentOrder, ordersView, rest>>

ShownPending(c, o) == PendingCards(c, o) # {}

\* ------------------------------------------------------------ store commands
\* .from('menu_items').update({ price }).eq('id', menuItemId)
updateMenuItem(m, price) ==
    /\ menu_items[m] # price
    /\ menu_items' = [menu_items EXCEPT ![m] = price]
    /\ last' = [NoCommand EXCEPT !.op = "updateMenuItem"]
    /\ UNCHANGED <<orders, order_items, kds_tickets, nextId, clock,
                   menuView, currentOrder, ordersView, rest>>

\* a failure of the network or the server in one of updateMenuItem's requests
MenuFailures == {"none", "delete", "insert", "update"}

\* the ingredient lists of the menu form, by the cost of each ingredient
CostLists == {<<>>, <<1>>, <<2>>}

\* updates.ingredients.reduce((sum, ing) => sum + ing.cost, 0)
RECURSIVE SumCosts(_)
SumCosts(costs) ==
    IF costs = <<>> THEN 0 ELSE Head(costs) + SumCosts(Tail(costs))

\* which requests of updateMenuItem take effect: the result of the delete is
\* not looked at, so the insert follows it in any case; if (ingredientsError)
\* throw ...; if (error) throw ...
updateMenuItemWrites(fail) ==
    LET insertOk == fail # "insert"
    IN [delete |-> fail # "delete", insert |-> insertOk,
        update |-> insertOk /\ fail # "update"]

\* updateMenuItem resolves after the update of menu_items, throws otherwise
updateMenuItemResult(fail) ==
    IF updateMenuItemWrites(fail).update THEN "ok" ELSE "error"

\* updateMenuItem(menuItemId, { price, ingredients }): the ingredient rows of
\* the item are deleted, the new ones inserted, then price and cost written
updateMenuItemCall(m, price, costs, fail) ==
    LET w == updateMenuItemWrites(fail)
        kept == IF w.delete THEN <<>> ELSE ingredients[m]
        rows == kept \o (IF w.insert THEN costs ELSE <<>>)
    IN /\ Len(rows) <= MaxIngredients
       /\ ingredients' = [ingredients EXCEPT ![m] = rows]
       /\ menu_items' = IF w.update THEN [menu_items EXCEPT ![m] = price]
                        ELSE menu_items
       /\ menu_item_cost' = IF w.update
                            THEN [menu_item_cost EXCEPT ![m] = SumCosts(costs)]
                            ELSE menu_item_cost
       /\ last' = [NoCommand EXCEPT !.op = "updateMenuItem", !.arg = fail,
                                    !.res = updateMenuItemResult(fail)]
       /\ UNCHANGED <<orders, order_items, kds_tickets, nextId, clock, menuView,
                      currentOrder, ordersView, feed, subscribed, inflight,
                      localStorage, aside>>

\* which requests of the menu form's handleSubmit take effect for an existing
\* item: the update of menu_items (with the new cost), the delete of its
\* ingredient rows, and the insert of the new rows if there are any; each
\* error is thrown to the catch that alerts
handleSubmitWrites(costs, fail) ==
    LET updateOk == fail # "update"
        deleteOk == updateOk /\ fail # "delete"
    IN [update |-> updateOk, delete |-> deleteOk,
        insert |-> deleteOk /\ Len(costs) > 0 /\ fail # "insert",
        saved |-> deleteOk /\ (Len(costs) > 0 => fail # "insert")]

\* handleSubmit of the menu form, branch if (item)
handleSubmit(m, price, costs, fail) ==
    LET w == handleSubmitWrites(costs, fail)
        kept == IF w.delete THEN <<>> ELSE ingredients[m]
        rows == kept \o (IF w.insert THEN costs ELSE <<>>)
    IN /\ Len(rows) <= MaxIngredients
       /\ menu_items' = IF w.update THEN [menu_items EXCEPT ![m] = price]
                        ELSE menu_items
       /\ menu_item_cost' = IF w.update
                            THEN [menu_item_cost EXCEPT ![m] = SumCosts(costs)]
                            ELSE menu_item_cost
       /\ ingredients' = [ingredients EXCEPT ![m] = rows]
       /\ last' = [NoCommand EXCEPT !.op = "handleSubmit", !.arg = fail,
                                    !.res = IF w.saved THEN "ok" ELSE "error"]
       /\ UNCHANGED <<orders, order_items, kds_tickets, nextId, clock, menuView,
                      currentOrder, ordersView, feed, subscribed, inflight,
                      localStorage, aside>>

\* a rejection of one of the two reads of loadData
LoadFailures == {"none", "menu", "orders"}

\* loadData of the order entry: const [menuData, orderData] = await
\* Promise.all([getMenuItems(), getOrders()]) and the two setters, in one try
loadData(c, fail) ==
    /\ menuView' = IF fail = "none" THEN [menuView EXCEPT ![c] = menu_items]
                   ELSE menuView
    /\ ordersView' = IF fail = "none" THEN [ordersView EXCEPT ![c] = getOrders]
                     ELSE ordersView
    /\ last' = [NoCommand EXCEPT !.op = "loadData", !.client = c, !.arg = fail,
                                 !.res = IF fail = "none" THEN "ok" ELSE "error"]
    /\ UNCHANGED <<store, currentOrder, rest>>

\* the snapshot of order o that a command records before it runs
Before(c, op, o, arg) ==
    [NoCommand EXCEPT !.op = op, !.client = c, !.order = o, !.arg = arg,
                      !.beforeOrder = orders[o],
                      !.beforeTickets = TicketsOf(o)]

\* an update that also resets the order's total
updateOrderStatus_ResetsTotal(o, status) ==
    [orders EXCEPT ![o].status = status, ![o].total = 0]

\* .from('orders').update({ status }).eq('id', orderId)
updateOrderStatus(o, status) ==
    [orders EXCEPT ![o].status = status]

\* .from('orders').update({ status: 'completed', payment }).eq('id', orderId)
updateOrderPayment(o, paymentMethod) ==
    [orders EXCEPT ![o].status = "completed", ![o].payment = paymentMethod]

\* the update without the trigger on kds_tickets
updateKdsTicketStatus_NoTrigger(o, status) ==
    [i \in 1..Len(kds_tickets) |->
        IF kds_tickets[i].order_id = o
        THEN [kds_tickets[i] EXCEPT !.status = status]
        ELSE kds_tickets[i]]

\* .from('kds_tickets').update({ status }).eq('order_id', orderId), and the
\* trigger update_kds_tickets_updated_at: NEW.updated_at = NOW()
updateKdsTicketStatus(o, status) ==
    [i \in 1..Len(kds_tickets) |->
        IF kds_tickets[i].order_id = o
        THEN [kds_tickets[i] EXCEPT !.status = status, !.updated_at = clock]
        ELSE kds_tickets[i]]

\* order entry, payment modal: completeOrder(selectedOrderId, paymentMethod)
OrderEntry_completeOrder(c, o, paymentMethod, failed) ==
    /\ ShownPending(c, o)
    /\ orders' = IF failed THEN orders ELSE updateOrderPayment(o, paymentMethod)
    /\ Publish(IF failed THEN <<>> ELSE <<ChangeEvent("UPDATE", o, "completed")>>)
    /\ last' = [Before(c, "completeOrder", o, paymentMethod) EXCEPT
                    !.res = IF failed THEN "error" ELSE "ok"]
    /\ UNCHANGED <<menu_items, order_items, kds_tickets, nextId, clock,
                   menuView, currentOrder, ordersView, other>>

\* kitchen display, 'Selesai' on a card of the ready column
KitchenDisplay_completeOrder(c, o, failed) ==
    /\ \E i \in PendingCards(c, o) : ordersView[c][i].column = "ready"
    /\ orders' = IF failed THEN orders ELSE updateOrderStatus(o, "completed")
    /\ Publish(IF failed THEN <<>> ELSE <<ChangeEvent("UPDATE", o, "completed")>>)
    /\ last' = [Before(c, "completeOrder", o, NULL) EXCEPT
                    !.res = IF failed THEN "error" ELSE "ok"]
    /\ UNCHANGED <<menu_items, order_items, kds_tickets, nextId, clock,
                   menuView, currentOrder, ordersView, other>>

\* 'Batal' of the order entry list and of a kitchen card
cancelOrder(c, o, failed) ==
    /\ ShownPending(c, o)
    /\ orders' = IF failed THEN orders ELSE updateOrderStatus(o, "cancelled")
    /\ Publish(IF failed THEN <<>> ELSE <<ChangeEvent("UPDATE", o, "cancelled")>>)
    /\ last' = [Before(c, "cancelOrder", o, NULL) EXCEPT
                    !.res = IF failed THEN "error" ELSE "ok"]
    /\ UNCHANGED <<menu_items, order_items, kds_tickets, nextId, clock,
                   menuView, currentOrder, ordersView, other>>

\* nextAction of the columns: 'Baru' requests preparing, 'Diproses' ready
NextAction(column) == IF column = "new" THEN "preparing" ELSE "ready"

\* kitchen display, 'Lanjut' on a card of the new or the preparing column
setTicketStatus(c, o, failed) ==
    \E i \in PendingCards(c, o) :
    /\ ordersView[c][i].column \in {"new", "preparing"}
    /\ kds_tickets' = IF failed THEN kds_tickets
                      ELSE updateKdsTicketStatus(o, NextAction(ordersView[c][i].column))
    /\ last' = [Before(c, "setTicketStatus", o, NextAction(ordersView[c][i].column))
                    EXCEPT !.res = IF failed THEN "error" ELSE "ok"]
    /\ UNCHANGED <<menu_items, orders, order_items, nextId, clock,
                   menuView, currentOrder, ordersView, rest>>

\* time passes at the database
Tick ==
    /\ clock < MaxClock
    /\ clock' = clock + 1
    /\ last' = NoCommand
    /\ UNCHANGED <<menu_items, orders, order_items, kds_tickets, nextId,
                   menuView, currentOrder, ordersView, rest>>

\* 'Hapus' of the order entry list, shown for every listed order:
\* .from('orders').delete().eq('id', orderId); order_items and kds_tickets
\* REFERENCES orders(id) ON DELETE CASCADE
deleteOrder(c, o, failed) ==
    LET deleted == ~failed /\ o \in DOMAIN orders
    IN /\ \E i \in 1..Len(ordersView[c]) : ordersView[c][i].id = o
       /\ orders' = IF deleted THEN [x \in DOMAIN orders \ {o} |-> orders[x]]
                    ELSE orders
       /\ order_items' = IF deleted
                         THEN SelectSeq(order_items, LAMBDA r : r.order_id # o)
                         ELSE order_items
       /\ kds_tickets' = IF deleted
                         THEN SelectSeq(kds_tickets, LAMBDA r : r.order_id # o)
                         ELSE kds_tickets
       /\ Publish(IF deleted THEN <<ChangeEvent("DELETE", o, NULL)>> ELSE <<>>)
       /\ last' = [NoCommand EXCEPT !.op = "deleteOrder", !.client = c, !.order = o,
                                    !.res = IF failed THEN "error" ELSE "ok"]
       /\ UNCHANGED <<menu_items, nextId, clock, menuView, currentOrder,
                      ordersView, other>>

\* ------------------------------------------------------------ the reconciler
\* a getOrders request that the database has not yet read for
Requested == [answered |-> FALSE, data |-> <<>>]

\* the component mounts: loadOrders() sends the first getOrders request and
\* subscribeToOrders opens the subscription
mount(c) ==
    /\ ~subscribed[c]
    /\ subscribed' = [subscribed EXCEPT ![c] = TRUE]
    /\ inflight' = [inflight EXCEPT ![c] = Append(@, Requested)]
    /\ last' = [NoCommand EXCEPT !.op = "mount", !.client = c]
    /\ UNCHANGED <<store, menuView, currentOrder, ordersView, feed,
                   ingredients, menu_item_cost, localStorage, aside>>

\* payload.new of an orders event is the row of table orders: it has no
\* kds_tickets, which puts a pending order in column new, and no items
EventCard(payload) ==
    [OrderCard(payload.id, payload.status, <<>>) EXCEPT !.joined = FALSE]

\* setOrders(prev => [payload.new, ...prev])
Inserted(prev, payload) == <<EventCard(payload)>> \o prev

\* the filter with its test inverted: it keeps the records of the id
Deleted_Inverted(prev, payload) ==
    SelectSeq(prev, LAMBDA order : order.id = payload.id)

\* setOrders(prev => prev.filter(order => order.id !== payload.old.id))
Deleted(prev, payload) == SelectSeq(prev, LAMBDA order : order.id # payload.id)

\* setOrders(prev => prev.map(order =>
\*     order.id === payload.new.id ? payload.new : order))
Updated(prev, payload) ==
    [i \in 1..Len(prev) |->
        IF prev[i].id = payload.id THEN EventCard(payload) ELSE prev[i]]

\* the callback of subscribeToOrders up to its await: the event is applied to
\* the collection and a getOrders request is sent
ordersSubscription(c) ==
    /\ feed[c] # <<>>
    /\ Len(inflight[c]) < MaxInflight
    /\ LET payload == Head(feed[c])
       IN /\ ordersView' = [ordersView EXCEPT ![c] =
                CASE payload.eventType = "INSERT" -> Inserted(@, payload)
                  [] payload.eventType = "DELETE" -> Deleted(@, payload)
                  [] payload.eventType = "UPDATE" -> Updated(@, payload)]
          /\ last' = [NoCommand EXCEPT !.op = "ordersSubscription", !.client = c,
                                       !.res = "ok", !.event = payload,
                                       !.beforeView = ordersView[c]]
    /\ feed' = [feed EXCEPT ![c] = Tail(@)]
    /\ inflight' = [inflight EXCEPT ![c] = Append(@, Requested)]
    /\ UNCHANGED <<store, menuView, currentOrder, subscribed,
                   ingredients, menu_item_cost, localStorage, aside>>

\* the database reads v_orders_with_items for one of the requests of c
getOrdersQuery(c, i) ==
    /\ i \in 1..Len(inflight[c])
    /\ ~inflight[c][i].answered
    /\ inflight' = [inflight EXCEPT ![c][i] = [answered |-> TRUE, data |-> getOrders]]
    /\ last' = [NoCommand EXCEPT !.op = "getOrders", !.client = c, !.position = i]
    /\ UNCHANGED <<store, menuView, currentOrder, ordersView, subscribed, feed,
                   ingredients, menu_item_cost, localStorage, aside>>

\* a refresh that keeps the records its data does not name
Refreshed_Merged(prev, data) ==
    data \o SelectSeq(prev, LAMBDA order :
                \A j \in 1..Len(data) : data[j].id # order.id)

\* setOrders(data || [])
Refreshed(prev, data) == data

\* const data = await getOrders(); setOrders(data || []): the response to one
\* of the requests of c arrives, in whatever order the network returns them
setOrders(c, i) ==
    /\ i \in 1..Len(inflight[c])
    /\ inflight[c][i].answered
    /\ ordersView' = [ordersView EXCEPT ![c] = Refreshed(@, inflight[c][i].data)]
    /\ inflight' = [inflight EXCEPT ![c] =
            SubSeq(@, 1, i - 1) \o SubSeq(@, i + 1, Len(@))]
    /\ last' = [NoCommand EXCEPT !.op = "setOrders", !.client = c, !.res = "ok",
                                 !.beforeView = ordersView[c],
                                 !.snapshot = inflight[c][i].data,
                                 !.position = i]
    /\ UNCHANGED <<store, menuView, currentOrder, subscribed, feed,
                   ingredients, menu_item_cost, localStorage, aside>>

\* ---------------------------------------------------------- the local mirror
\* A key that was never written reads like one that holds an empty array
\* (if (!data) return []; storedTickets ? ... : {}), so both are <<>> here, and
\* so is a record's items when it has none.  An object is the sequence of its
\* [key, value] entries.

\* times, in milliseconds; every date of the mirror is a valid one
Times == {999, 1000, 1001}
NoDate == [type |-> "undefined"]
DateOf(time) == [type |-> "Date", time |-> time]

\* Date.prototype.toISOString(): the text carries the seconds and three digits
\* of milliseconds
toISOString(date) ==
    [type |-> "string", seconds |-> date.time \div 1000, millis |-> date.time % 1000]

\* new Date(value), of a Date or of the text that toISOString wrote
NewDate(value) ==
    IF value.type = "Date" THEN value
    ELSE DateOf(value.seconds * 1000 + value.millis)

\* items.map(orderItem => ({ ...orderItem, menuItem: { ...orderItem.menuItem } }))
CopyItems(items) ==
    [i \in 1..Len(items) |->
        [menuItem |-> [id |-> items[i].menuItem.id], quantity |-> items[i].quantity]]

\* saveToStorage, one item: date: new Date(item.date).toISOString() when the
\* item has a date; JSON.stringify drops what is undefined
Serialized(item) ==
    [id |-> item.id,
     date |-> IF item.date = NoDate THEN NoDate ELSE toISOString(NewDate(item.date)),
     items |-> CopyItems(item.items)]

\* a write that keeps what the key held and appends the data
saveToStorage_Appending(old, data) ==
    old \o [i \in 1..Len(data) |-> Serialized(data[i])]

\* saveToStorage(key, data): localStorage.setItem(key, JSON.stringify(
\* processedData)) gives the key its new value, whatever it held
saveToStorage(old, data) ==
    [i \in 1..Len(data) |-> Serialized(data[i])]

\* a read that hands the stored text of the date on
Deserialized_DateAsText(item) ==
    [id |-> item.id, date |-> item.date, items |-> CopyItems(item.items)]

\* getFromStorage, one item: date: item.date ? new Date(item.date) : undefined
Deserialized(item) ==
    [id |-> item.id,
     date |-> IF item.date = NoDate THEN NoDate ELSE NewDate(item.date),
     items |-> CopyItems(item.items)]

\* JSON.parse(data).map(...) of getFromStorage, on the value of a key
Parsed(value) == [i \in 1..Len(value) |-> Deserialized(value[i])]

getFromStorage(key) == Parsed(localStorage[key])

\* what fetch and response.json() give: a rejected request (network error,
\* timeout), an error response whose body is a JSON object, or the collection
Failed == {"network_error", "server_error"}
ErrorBody == <<[key |-> "error", value |-> "Internal Server Error"]>>
Rejected == [status |-> "network_error", body |-> <<>>]
ServerError == [status |-> "server_error", body |-> ErrorBody]
Ok(body) == [status |-> "ok", body |-> body]

\* serverOrders.map(order => ({ ...order, date: new Date(order.date) })) in
\* getAllOrders; getAllMaterials and getAllMenuItems return the body as it is
Processed(key, body) ==
    IF key = "kopi_orders"
    THEN [i \in 1..Len(body) |-> [body[i] EXCEPT !.date = NewDate(@)]]
    ELSE body

\* serverX.length > 0: the body is an array that holds a record
NonEmpty(response) == response.status = "ok" /\ Len(response.body) > 0

\* the value getAllMaterials, getAllMenuItems or getAllOrders resolves with when
\* the key holds value
getAllReturn(key, value, response) ==
    IF NonEmpty(response) THEN Processed(key, response.body)
    ELSE Processed(key, Parsed(value))

getAll(key, response) ==
    /\ localStorage' = IF NonEmpty(response)
                       THEN [localStorage EXCEPT ![key] =
                                saveToStorage(@, Processed(key, response.body))]
                       ELSE localStorage
    /\ last' = [NoCommand EXCEPT !.op = "getAll", !.key = key,
                                 !.response = response,
                                 !.stored = localStorage[key],
                                 !.returned = getAllReturn(key, localStorage[key], response)]
    /\ UNCHANGED <<store, menuView, currentOrder, ordersView, feed, subscribed,
                   inflight, ingredients, menu_item_cost, aside>>

getAllMaterials(response) == getAll("kopi_materials", response)
getAllMenuItems(response) == getAll("kopi_menu_items", response)
getAllOrders(response) == getAll("kopi_orders", response)

\* the value getKdsTickets resolves with when the key holds value: the parsed
\* body of any response that has one, the stored tickets in the catch branch
getKdsTicketsReturn(value, response) ==
    IF response.status = "network_error" THEN value ELSE response.body

getKdsTickets(response) ==
    /\ localStorage' = IF response.status = "network_error" THEN localStorage
                       ELSE [localStorage EXCEPT !["kopi_kds_tickets"] = response.body]
    /\ last' = [NoCommand EXCEPT !.op = "getKdsTickets", !.key = "kopi_kds_tickets",
                                 !.response = response,
                                 !.stored = localStorage["kopi_kds_tickets"],
                                 !.returned = getKdsTicketsReturn(
                                     localStorage["kopi_kds_tickets"], response)]
    /\ UNCHANGED <<store, menuView, currentOrder, ordersView, feed, subscribed,
                   inflight, ingredients, menu_item_cost, aside>>

\* createOrder of the local mirror: getFromStorage, push, saveToStorage
db_createOrder(order) ==
    /\ Len(localStorage["kopi_orders"]) < MaxMirror
    /\ localStorage' = [localStorage EXCEPT !["kopi_orders"] =
            saveToStorage(@, Append(getFromStorage("kopi_orders"), order))]
    /\ last' = [NoCommand EXCEPT !.op = "db_createOrder", !.key = "kopi_orders",
                                 !.stored = localStorage["kopi_orders"],
                                 !.returned = <<order>>]
    /\ UNCHANGED <<store, menuView, currentOrder, ordersView, feed, subscribed,
                   inflight, ingredients, menu_item_cost, aside>>

\* the collections of the server, and the orders a session creates
CatalogItem(id) == [id |-> id, date |-> NoDate, items |-> <<>>]
Catalogs == {<<>>, <<CatalogItem("A")>>, <<CatalogItem("B"), CatalogItem("A")>>}
OneItem == <<[menuItem |-> [id |-> "A"], quantity |-> 1]>>
OrderJson(id, time) ==
    [id |-> id, date |-> toISOString(DateOf(time)), items |-> OneItem]
OrderLists ==
    {<<>>} \cup {<<OrderJson("o1", t)>> : t \in Times}
    \cup {<<OrderJson("o2", t), OrderJson("o1", u)>> : t, u \in Times}
TicketObjects ==
    {<<>>, <<[key |-> "o1", value |-> "new"]>>, <<[key |-> "o1", value |-> "ready"]>>}
NewOrders == {[id |-> "o3", date |-> DateOf(t), items |-> OneItem] : t \in Times}

Responses(bodies) == {Rejected, ServerError} \cup {Ok(body) : body \in bodies}

\* ------------------------------------------------------------ the webhook
Urls == {"", "https://hook"}
\* no row, or a read that returned an error: webhookSettings is null
NoSettings == [is_enabled |-> FALSE, url |-> ""]

\* saveSettings: upsert of the single row; an error is logged and alerted
saveSettings(url, isEnabled, failed) ==
    /\ webhook_settings' = IF failed THEN webhook_settings
                           ELSE [is_enabled |-> isEnabled, url |-> url]
    /\ last' = [NoCommand EXCEPT !.op = "saveSettings",
                                 !.res = IF failed THEN "error" ELSE "ok"]
    /\ UNCHANGED <<core, effects, posts, console, login>>

\* what fetch does with the POST: the endpoint answers 2xx, it answers with
\* an error status (fetch resolves), or the request fails (fetch rejects)
Deliveries == {"ok", "http_error", "rejected"}

\* sendWebhook: nothing without an enabled row with a url; otherwise one
\* POST, whose rejection is caught and logged; the response is not read
sendWebhook(settings, delivery) ==
    IF ~ settings.is_enabled \/ settings.url = ""
    THEN [posted |-> FALSE, logged |-> FALSE]
    ELSE [posted |-> TRUE, logged |-> delivery = "rejected"]

\* createOrder with its notification: sendWebhook is awaited after the
\* third insert returned no error, then orderData is returned
createOrderNotify(items, fail, readFailed, delivery) ==
    LET sent == IF createOrderWrites(items, fail).kds
                THEN sendWebhook(IF readFailed THEN NoSettings ELSE webhook_settings,
                                 delivery)
                ELSE [posted |-> FALSE, logged |-> FALSE]
    IN /\ createOrder(items, fail)
       /\ posts' = IF sent.posted THEN posts \cup {nextId} ELSE posts
       /\ console' = IF sent.logged THEN console \cup {nextId} ELSE console
       /\ last' = [NoCommand EXCEPT !.op = "createOrder", !.order = nextId,
                                    !.items = items, !.arg = delivery,
                                    !.res = createOrderResult(items, fail)]
       /\ UNCHANGED <<menu_items, clock, menuView, currentOrder, ordersView,
                      subscribed, inflight, ingredients, menu_item_cost,
                      localStorage, effects, webhook_settings, login>>

\* ---------------------------------------------------------------- the login
MAX_ATTEMPTS == 5
LOCKOUT_TIME == 15 * 60 * 1000
\* the tabs of one browser: each runs its own App over the same storage
Tabs == {"t1", "t2"}
\* the readings of the clock at which something happens
Instants == {0, 1, LOCKOUT_TIME, LOCKOUT_TIME + 1}
\* { count: 0, timestamp: 0 }, also the state when the key is not stored
NoAttempts == [count |-> 0, timestamp |-> 0]

\* isLocked(): its result for the state attempts at time t
isLocked(att, t) == att.count >= MAX_ATTEMPTS /\ t - att.timestamp < LOCKOUT_TIME
\* isLocked(): whether it resets the attempts (state and storage)
Expired(att, t) == att.count >= MAX_ATTEMPTS /\ t - att.timestamp >= LOCKOUT_TIME

\* whether the five failures of the last row are less than 15 minutes old
LockedOut == lockout.streak >= MAX_ATTEMPTS /\ now - lockout.since < LOCKOUT_TIME

\* the row of failed verifications after one more verification
Accumulated(outcome) ==
    LET streak == IF lockout.streak >= MAX_ATTEMPTS /\ ~ LockedOut THEN 0
                  ELSE lockout.streak
    IN IF LockedOut \/ outcome = "error" THEN lockout
       ELSE IF outcome = "valid" THEN [streak |-> 0, since |-> 0]
       ELSE [streak |-> streak + 1,
             since |-> IF streak + 1 >= MAX_ATTEMPTS THEN now ELSE lockout.since]

\* time passes
advance(t) ==
    /\ t > now
    /\ now' = t
    /\ last' = [NoCommand EXCEPT !.op = "advance"]
    /\ UNCHANGED <<core, effects, webhook, attempts, loginAttempts,
                   isAuthenticated, screen, enabled, lockout>>

\* the page of a tab is loaded again: App and Login initialise their state
\* from the storage
reload(tab) ==
    /\ screen' = [screen EXCEPT ![tab] = IF isAuthenticated THEN "dashboard"
                                         ELSE "login"]
    /\ attempts' = [attempts EXCEPT ![tab] = loginAttempts]
    /\ enabled' = [enabled EXCEPT ![tab] = FALSE]
    /\ last' = [NoCommand EXCEPT !.op = "reload", !.client = tab]
    /\ UNCHANGED <<core, effects, webhook, loginAttempts, isAuthenticated, now,
                   lockout>>

\* the sixth digit of the PIN is typed: the render evaluates
\* disabled={pin.length !== 6 || loading || isLocked()}
handlePinChange(tab) ==
    /\ screen[tab] = "login"
    /\ enabled' = [enabled EXCEPT ![tab] = ~ isLocked(attempts[tab], now)]
    /\ attempts' = IF Expired(attempts[tab], now)
                   THEN [attempts EXCEPT ![tab] = NoAttempts] ELSE attempts
    /\ loginAttempts' = IF Expired(attempts[tab], now) THEN NoAttempts
                        ELSE loginAttempts
    /\ last' = [NoCommand EXCEPT !.op = "handlePinChange", !.client = tab]
    /\ UNCHANGED <<core, effects, webhook, isAuthenticated, screen, now, lockout>>

\* what verifyPin does: it resolves true or false, or it throws
Verifications == {"valid", "invalid", "error"}

\* handleSubmit, from the enabled button: unless isLocked(), verifyPin is
\* awaited; a valid PIN clears the attempts and authenticates, an invalid one
\* counts (from the attempts of the render that made the handler) and
\* clears the PIN, an exception only shows the error
handleLoginSubmit(tab, outcome) ==
    LET att == attempts[tab]
        newAttempts == [count |-> att.count + 1,
                        timestamp |-> IF att.count + 1 >= MAX_ATTEMPTS THEN now
                                      ELSE att.timestamp]
    IN /\ screen[tab] = "login"
       /\ enabled[tab]
       /\ IF isLocked(att, now)
          THEN /\ enabled' = [enabled EXCEPT ![tab] = FALSE]
               /\ last' = [NoCommand EXCEPT !.op = "handleSubmit", !.client = tab,
                                            !.res = "locked"]
               /\ UNCHANGED <<attempts, loginAttempts, isAuthenticated, screen,
                              lockout>>
          ELSE /\ attempts' = [attempts EXCEPT ![tab] =
                                  IF outcome = "valid" THEN NoAttempts
                                  ELSE IF outcome = "invalid" THEN newAttempts
                                  ELSE IF Expired(att, now) THEN NoAttempts ELSE att]
               /\ loginAttempts' = IF outcome = "valid" THEN NoAttempts
                                   ELSE IF outcome = "invalid" THEN newAttempts
                                   ELSE IF Expired(att, now) THEN NoAttempts
                                   ELSE loginAttempts
               /\ isAuthenticated' = (isAuthenticated \/ outcome = "valid")
               /\ screen' = IF outcome = "valid"
                            THEN [screen EXCEPT ![tab] = "dashboard"] ELSE screen
               /\ enabled' = [enabled EXCEPT ![tab] = (outcome = "error")]
               /\ lockout' = Accumulated(outcome)
               /\ last' = [NoCommand EXCEPT !.op = "verifyPin", !.client = tab,
                                            !.arg = IF LockedOut THEN "locked"
                                                    ELSE "open",
                                            !.res = outcome]
       /\ UNCHANGED <<core, effects, webhook, now>>

\* handleLogout of App: the flag is removed and the Login mounts
handleLogout(tab) ==
    /\ screen[tab] = "dashboard"
    /\ isAuthenticated' = FALSE
    /\ screen' = [screen EXCEPT ![tab] = "login"]
    /\ attempts' = [attempts EXCEPT ![tab] = loginAttempts]
    /\ enabled' = [enabled EXCEPT ![tab] = FALSE]
    /\ last' = [NoCommand EXCEPT !.op = "handleLogout", !.client = tab]
    /\ UNCHANGED <<core, effects, webhook, loginAttempts, now, lockout>>

\* ------------------------------------------------- effects of a component
\* the components that observe the change feed while they are mounted
Components == {"App", "KitchenDisplay"}

\* the channel a component opens: supabase.channel(topic).on(table).subscribe()
Channel(comp, topic, table) == [owner |-> comp, topic |-> topic, table |-> table]

subscribeToMenuItems(comp) == Channel(comp, "menu-items-changes", "menu_items")
subscribeToOrders(comp) == Channel(comp, "orders-changes", "orders")
subscribeToMaterials(comp) == Channel(comp, "materials-changes", "materials")

\* the subscriptions the body of a component's effect opens, in the order
\* of its statements, after it has started the first load
Subscriptions(comp) ==
    IF comp = "App"
    THEN <<subscribeToMenuItems(comp), subscribeToOrders(comp),
           subscribeToMaterials(comp)>>
    ELSE <<subscribeToOrders(comp), Channel(comp, "kds-channel", "kds_tickets")>>

\* the subscriptions the cleanup returned by the effect releases
Unsubscribed(comp) ==
    IF comp = "App"
    THEN {subscribeToMenuItems(comp), subscribeToOrders(comp),
          subscribeToMaterials(comp)}
    ELSE {subscribeToOrders(comp), Channel(comp, "kds-channel", "kds_tickets")}

\* the channels open after the effect body ran: all of them, or those
\* before the subscribe() call that threw (thrown = 0: none threw)
Opened(comp, thrown) ==
    LET n == IF thrown = 0 THEN Len(Subscriptions(comp)) ELSE thrown - 1
    IN {Subscriptions(comp)[k] : k \in 1..n}

\* the effect of a mounting component: the first load is started and not
\* awaited, the channels are opened one after the other, the cleanup is
\* returned to React.  The body has no try: when a subscribe() call throws,
\* the body ends there, React gets no cleanup and tears the component down.
useEffect(comp, thrown) ==
    /\ phase[comp] = "idle"
    /\ phase' = [phase EXCEPT ![comp] = IF thrown = 0 THEN "observing" ELSE "failed"]
    /\ channels' = channels \cup Opened(comp, thrown)
    /\ last' = [NoCommand EXCEPT !.op = "useEffect", !.client = comp,
                                 !.res = IF thrown = 0 THEN "ok" ELSE "error"]
    /\ UNCHANGED <<core, loading, notified, webhook, login>>

\* the first load settles, with the collections or with a rejection: the
\* rejection is caught and logged, finally clears the loading flag
loadSettled(comp, failed) ==
    /\ phase[comp] # "idle"
    /\ loading[comp]
    /\ loading' = [loading EXCEPT ![comp] = FALSE]
    /\ last' = [NoCommand EXCEPT !.op = "loadSettled", !.client = comp,
                                 !.res = IF failed THEN "error" ELSE "ok"]
    /\ UNCHANGED <<core, phase, channels, notified, webhook, login>>

\* the realtime client runs the callback of an open channel
channelCallback(channel) ==
    /\ channel \in channels
    /\ channel \notin notified
    /\ notified' = notified \cup {channel}
    /\ last' = [NoCommand EXCEPT !.op = "channelCallback", !.client = channel.owner]
    /\ UNCHANGED <<core, phase, channels, loading, webhook, login>>

\* the component unmounts: React runs the cleanup of its effect
cleanup(comp) ==
    /\ phase[comp] = "observing"
    /\ phase' = [phase EXCEPT ![comp] = "stopped"]
    /\ channels' = channels \ Unsubscribed(comp)
    /\ last' = [NoCommand EXCEPT !.op = "cleanup", !.client = comp]
    /\ UNCHANGED <<core, loading, notified, webhook, login>>

AllChannels == UNION {Opened(comp, 0) : comp \in Components}

\* ---------------------------------------------------------- specifications
Init ==
    /\ menu_items = [m \in MenuIds |-> 1]
    /\ orders = <<>>
    /\ order_items = <<>>
    /\ kds_tickets = <<>>
    /\ nextId = 1
    /\ clock = 0
    /\ menuView = [c \in Clients |-> menu_items]
    /\ currentOrder = [c \in Clients |-> <<>>]
    /\ ordersView = [c \in Clients |-> <<>>]
    /\ subscribed = [c \in Clients |-> FALSE]
    /\ feed = [c \in Clients |-> <<>>]
    /\ inflight = [c \in Clients |-> <<>>]
    /\ ingredients = [m \in MenuIds |-> <<>>]
    /\ menu_item_cost = [m \in MenuIds |-> 0]
    /\ localStorage = [k \in StorageKeys |-> <<>>]
    /\ phase = [comp \in Components |-> "idle"]
    /\ channels = {}
    /\ loading = [comp \in Components |-> TRUE]
    /\ notified = {}
    /\ webhook_settings = NoSettings
    /\ posts = {}
    /\ console = {}
    /\ attempts = [tab \in Tabs |-> NoAttempts]
    /\ loginAttempts = NoAttempts
    /\ isAuthenticated = FALSE
    /\ screen = [tab \in Tabs |-> "login"]
    /\ enabled = [tab \in Tabs |-> FALSE]
    /\ now = 0
    /\ lockout = [streak |-> 0, since |-> 0]
    /\ last = NoCommand

\* order entry alone: the cart, the menu prices and the creation of orders
NextEntry ==
    \/ \E c \in Cashiers, m \in MenuIds : addToOrder(c, m)
    \/ \E c \in Cashiers, m \in MenuIds, q \in 0..MaxQty : updateQuantity(c, m, q)
    \/ \E c \in Cashiers, fail \in Failures : submitOrder(c, fail)
    \/ \E c \in Cashiers : loadMenu(c)
    \/ \E m \in MenuIds, price \in Prices : updateMenuItem(m, price)

SpecEntry == Init /\ [][NextEntry]_vars

\* createOrder alone, on every input
NextCreate ==
    \E items \in ApiInputs, fail \in Failures : createOrderCall(items, fail)

SpecCreate == Init /\ [][NextCreate]_vars

\* the lifecycle of one-line orders, with the database's time
Next ==
    \/ \E fail \in Failures : createOrderCall(OneLine, fail)
    \/ \E m \in MenuIds, price \in Prices : updateMenuItem(m, price)
    \/ \E c \in Clients : loadOrders(c)
    \/ \E c \in Clients, o \in DOMAIN orders, pm \in PaymentMethods, f \in BOOLEAN :
            OrderEntry_completeOrder(c, o, pm, f)
    \/ \E c \in Clients, o \in DOMAIN orders, f \in BOOLEAN :
            KitchenDisplay_completeOrder(c, o, f)
    \/ \E c \in Clients, o \in DOMAIN orders, f \in BOOLEAN : cancelOrder(c, o, f)
    \/ \E c \in Clients, o \in DOMAIN orders, f \in BOOLEAN : setTicketStatus(c, o, f)
    \/ Tick

Spec == Init /\ [][Next]_vars

\* the kitchen displays alone, with the database's time
NextTicket ==
    \/ \E fail \in Failures : createOrderCall(OneLine, fail)
    \/ \E c \in Clients : loadOrders(c)
    \/ \E c \in Clients, o \in DOMAIN orders, f \in BOOLEAN : setTicketStatus(c, o, f)
    \/ Tick

SpecTicket == Init /\ [][NextTicket]_vars

\* the two buttons of a pending order in the order entry list
NextCancel ==
    \/ \E fail \in Failures : createOrderCall(OneLine, fail)
    \/ \E c \in Clients : loadOrders(c)
    \/ \E c \in Cashiers, o \in DOMAIN orders, pm \in PaymentMethods, f \in BOOLEAN :
            OrderEntry_completeOrder(c, o, pm, f)
    \/ \E c \in Clients, o \in DOMAIN orders, f \in BOOLEAN : cancelOrder(c, o, f)

SpecCancel == Init /\ [][NextCancel]_vars

\* one mounted order list: its subscription, its refreshes and its buttons
NextReconciler ==
    \/ \E c \in Cashiers : mount(c)
    \/ createOrderCall(OneLine, "none")
    \/ \E c \in Cashiers, o \in DOMAIN orders : cancelOrder(c, o, FALSE)
    \/ \E c \in Cashiers, o \in 1..MaxOrders, f \in BOOLEAN : deleteOrder(c, o, f)
    \/ \E c \in Cashiers : ordersSubscription(c)
    \/ \E c \in Cashiers, i \in 1..MaxInflight : getOrdersQuery(c, i)
    \/ \E c \in Cashiers, i \in 1..MaxInflight : setOrders(c, i)

SpecReconciler == Init /\ [][NextReconciler]_vars

\* the reads and the local writes of the mirror, against a server that
\* answers, fails or is out of reach
NextMirror ==
    \/ \E response \in Responses(Catalogs) : getAllMaterials(response)
    \/ \E response \in Responses(Catalogs) : getAllMenuItems(response)
    \/ \E response \in Responses(OrderLists) : getAllOrders(response)
    \/ \E response \in Responses(TicketObjects) : getKdsTickets(response)
    \/ \E order \in NewOrders : db_createOrder(order)

SpecMirror == Init /\ [][NextMirror]_vars

\* the commands that write in several requests
NextWrites ==
    \/ \E fail \in Failures : createOrderCall(OneLine, fail)
    \/ \E m \in MenuIds, price \in Prices, costs \in CostLists, fail \in MenuFailures :
            updateMenuItemCall(m, price, costs, fail)

SpecWrites == Init /\ [][NextWrites]_vars

\* the first load of the order entry, over a store that other sessions write
NextLoad ==
    \/ \E fail \in Failures : createOrderCall(OneLine, fail)
    \/ \E m \in MenuIds, price \in Prices : updateMenuItem(m, price)
    \/ \E c \in Clients, fail \in LoadFailures : loadData(c, fail)

SpecLoad == Init /\ [][NextLoad]_vars

\* the components mount, load, are notified and unmount
NextEffects ==
    \/ \E comp \in Components : \E thrown \in 0..Len(Subscriptions(comp)) :
            useEffect(comp, thrown)
    \/ \E comp \in Components, failed \in BOOLEAN : loadSettled(comp, failed)
    \/ \E channel \in AllChannels : channelCallback(channel)
    \/ \E comp \in Components : cleanup(comp)

SpecEffects == Init /\ [][NextEffects]_vars

\* orders created while the webhook is configured, switched off or failing
NextWebhook ==
    \/ \E url \in Urls, isEnabled, failed \in BOOLEAN : saveSettings(url, isEnabled, failed)
    \/ \E items \in {<<>>, OneLine}, fail \in Failures, readFailed \in BOOLEAN,
          delivery \in Deliveries : createOrderNotify(items, fail, readFailed, delivery)

SpecWebhook == Init /\ [][NextWebhook]_vars

\* one mounted order list whose commands may fail
NextFailure ==
    \/ \E c \in Cashiers : mount(c)
    \/ \E fail \in Failures : createOrderCall(OneLine, fail)
    \/ \E c \in Cashiers, o \in DOMAIN orders, pm \in PaymentMethods, f \in BOOLEAN :
            OrderEntry_completeOrder(c, o, pm, f)
    \/ \E c \in Cashiers, o \in DOMAIN orders, f \in BOOLEAN : cancelOrder(c, o, f)
    \/ \E c \in Cashiers : ordersSubscription(c)
    \/ \E c \in Cashiers, i \in 1..MaxInflight : getOrdersQuery(c, i)
    \/ \E c \in Cashiers, i \in 1..MaxInflight : setOrders(c, i)

SpecFailure == Init /\ [][NextFailure]_vars

\* the two ways one menu item and its ingredients are rewritten
NextMenu ==
    \/ \E m \in {"A"}, price \in Prices, costs \in CostLists, fail \in MenuFailures :
            updateMenuItemCall(m, price, costs, fail)
    \/ \E m \in {"A"}, price \in Prices, costs \in CostLists, fail \in MenuFailures :
            handleSubmit(m, price, costs, fail)

SpecMenu == Init /\ [][NextMenu]_vars

\* a mounted kitchen display next to a second display that moves the tickets
NextKitchen ==
    \/ \E c \in Cashiers : mount(c)
    \/ createOrderCall(OneLine, "none")
    \/ \E c \in Clients \ Cashiers : loadOrders(c)
    \/ \E c \in Clients \ Cashiers, o \in DOMAIN orders : setTicketStatus(c, o, FALSE)
    \/ \E c \in Clients, o \in DOMAIN orders : cancelOrder(c, o, FALSE)
    \/ \E c \in Cashiers : ordersSubscription(c)
    \/ \E c \in Cashiers, i \in 1..MaxInflight : getOrdersQuery(c, i)
    \/ \E c \in Cashiers, i \in 1..MaxInflight : setOrders(c, i)

SpecKitchen == Init /\ [][NextKitchen]_vars

\* the login screens of the tabs of one browser
NextLogin ==
    \/ \E t \in Instants : advance(t)
    \/ \E tab \in Tabs : reload(tab)
    \/ \E tab \in Tabs : handlePinChange(tab)
    \/ \E tab \in Tabs, outcome \in Verifications : handleLoginSubmit(tab, outcome)
    \/ \E tab \in Tabs : handleLogout(tab)

SpecLogin == Init /\ [][NextLogin]_vars

\* ================================================================== claims
\* what the last step was
Created == last.op \in {"createOrder", "submitOrder"} /\ last.res # "alert"
Reached == last.res # "error"     \* the request was answered by the store
StatusCommand == last.op \in {"completeOrder", "cancelOrder"} /\ Reached
TicketCommand == last.op = "setTicketStatus" /\ Reached
NoRowsOf(o) ==
    o \notin DOMAIN orders /\ ItemsOf(o) = <<>> /\ TicketsOf(o) = <<>>

\* the order of the kitchen columns
Rank(status) ==
    CASE status = "new" -> 1 [] status = "preparing" -> 2 [] status = "ready" -> 3

\* C1: no order with status completed has a null payment, and a completion
\* that names no payment method is rejected.
C1_CompletedHasPayment ==
    /\ \A o \in DOMAIN orders :
          orders[o].status = "completed" => orders[o].payment \in PaymentMethods
    /\ (last.op = "completeOrder" /\ last.arg = NULL /\ Reached) => last.res # "ok"

\* C2: a completeOrder or cancelOrder command on an order whose stored status
\* is not pending fails with InvalidTransition and leaves the stored status
\* as it was.
C2_TerminalStatus ==
    (StatusCommand /\ last.beforeOrder.status # "pending") =>
        /\ last.res = "InvalidTransition"
        /\ orders[last.order].status = last.beforeOrder.status

\* C3: createOrder is atomic: when one of its writes failed the store holds
\* no row of the order, and the store never holds an order without items or
\* without a ticket (every order here is created from a non-empty input).
C3_CreateAtomic ==
    /\ (Created /\ last.res = "error") => NoRowsOf(last.order)
    /\ \A o \in DOMAIN orders : ItemsOf(o) # <<>> /\ TicketsOf(o) # <<>>

\* C4: in every store state the total of every order is the sum of
\* price_at_time * quantity over the order's stored items.
C4_TotalIsSum ==
    \A o \in DOMAIN orders : orders[o].total = SumItems(ItemsOf(o))

\* C5: after a successful createOrder with a non-empty item list the store
\* holds the new order with status pending, items equal to the input items,
\* and exactly one ticket of that order, in status new.
C5_CreatedOrder ==
    (Created /\ last.res = "ok" /\ last.items # <<>>) =>
        /\ last.order \in DOMAIN orders
        /\ orders[last.order].status = "pending"
        /\ InputOf(ItemsOf(last.order)) = last.items
        /\ Len(TicketsOf(last.order)) = 1
        /\ TicketsOf(last.order)[1].status = "new"

\* a successful createOrder of two lines, as the second order of the store
\* where the bound allows one
C5_Witness ==
    /\ last.op = "createOrder" /\ last.res = "ok"
    /\ Len(last.items) = 2
    /\ last.order = MaxOrders

\* C6: createOrder with an empty item list fails with EmptyOrder, with a
\* quantity <= 0 it fails with a ValidationError, and in both cases no order,
\* item or ticket row is written.
C6_InvalidInputRejected ==
    LET empty == last.items = <<>>
        nonPositive == \E i \in 1..Len(last.items) : last.items[i].quantity <= 0
    IN (last.op = "createOrder" /\ (empty \/ nonPositive)) =>
        /\ last.res = IF empty THEN "EmptyOrder" ELSE "ValidationError"
        /\ NoRowsOf(last.order)

\* C7: the price_at_time stored for each item of a submitted order is the
\* price the menu item has in the store when createOrder is called.
C7_PriceAtCall ==
    (last.op = "submitOrder" /\ last.res = "ok") =>
        \A i \in 1..Len(ItemsOf(last.order)) :
            ItemsOf(last.order)[i].price_at_time
                = menu_items[ItemsOf(last.order)[i].menu_item_id]

\* C8: a ticket's status only moves forward in new, preparing, ready: a
\* backward request fails with InvalidTransition and leaves the status, any
\* other request succeeds and sets the requested status.
C8_ForwardOnly ==
    (TicketCommand /\ last.beforeOrder.status = "pending") =>
        /\ Len(TicketsOf(last.order)) = Len(last.beforeTickets)
        /\ \A i \in 1..Len(last.beforeTickets) :
              LET before == last.beforeTickets[i].status
                  after == TicketsOf(last.order)[i].status
              IN IF Rank(last.arg) < Rank(before)
                 THEN last.res = "InvalidTransition" /\ after = before
                 ELSE last.res = "ok" /\ after = last.arg

\* C9: a ticket-status request for an order that is completed or cancelled
\* changes no ticket and is answered with the StaleTicket signal.
C9_StaleTicket ==
    (TicketCommand /\ last.beforeOrder.status # "pending"
                   /\ last.beforeTickets # <<>>) =>
        /\ last.res = "StaleTicket"
        /\ TicketsOf(last.order) = last.beforeTickets

\* a request for the status every ticket of the order already has
SameState ==
    /\ TicketCommand
    /\ last.beforeTickets # <<>>
    /\ \A i \in 1..Len(last.beforeTickets) : last.beforeTickets[i].status = last.arg

\* C10 as stated: a request for the status the ticket already has succeeds
\* and leaves every field of the ticket and of the order as it was.
C10_SameStateNoop ==
    SameState =>
        /\ last.res = "ok"
        /\ TicketsOf(last.order) = last.beforeTickets
        /\ orders[last.order] = last.beforeOrder

\* C10 as amended: a request for the status the ticket already has, once it
\* reaches the store, succeeds and leaves the ticket's status and the order as
\* they were; the ticket's updated_at becomes the time of the request.
C10_SameStateKeepsStatus ==
    SameState =>
        /\ last.res = "ok"
        /\ orders[last.order] = last.beforeOrder
        /\ Len(TicketsOf(last.order)) = Len(last.beforeTickets)
        /\ \A i \in 1..Len(last.beforeTickets) :
              TicketsOf(last.order)[i]
                  = [last.beforeTickets[i] EXCEPT !.updated_at = clock]

\* a same-state request made after the ticket's last update, time having passed
C10_Witness ==
    /\ SameState
    /\ last.arg = "preparing"
    /\ \E i \in 1..Len(last.beforeTickets) : last.beforeTickets[i].updated_at < clock

CountOf(view, id) == Cardinality({i \in 1..Len(view) : view[i].id = id})

DeleteApplied ==
    last.op = "ordersSubscription" /\ last.event.eventType = "DELETE"

Quiescent(c) == subscribed[c] /\ feed[c] = <<>> /\ inflight[c] = <<>>

\* C14: once no event is waiting and every refresh has returned, the orders
\* collection of a subscribed client is the store's current getOrders.
C14_EventuallyConsistent ==
    \A c \in Clients : Quiescent(c) => ordersView[c] = getOrders

\* C15: when the response of a refresh arrives the collection becomes its
\* data as a whole, whichever refreshes were sent before or after it and
\* whatever the collection held; so with none left in flight the collection
\* is the data of the refresh that returned last.
C15_LastRefreshWins ==
    last.op = "setOrders" => ordersView[last.client] = last.snapshot

\* a refresh returned while one sent after it was still in flight, and its
\* data differed from the collection it replaced
C15_Witness ==
    /\ last.op = "setOrders"
    /\ last.position <= Len(inflight[last.client])
    /\ last.beforeView # last.snapshot
    /\ last.beforeView # <<>>

\* the last step was a read of the mirror's server
MirrorRead == last.op \in {"getAll", "getKdsTickets"}

\* the bodies the server of a key may answer with
BodiesOf(key) ==
    IF key = "kopi_orders" THEN OrderLists
    ELSE IF key = "kopi_kds_tickets" THEN TicketObjects ELSE Catalogs

\* what a read of the key resolves with
ReadReturn(key, value, response) ==
    IF key = "kopi_kds_tickets" THEN getKdsTicketsReturn(value, response)
    ELSE getAllReturn(key, value, response)

\* the collection a stored value stands for
Cached(key, value) == IF key = "kopi_kds_tickets" THEN value ELSE Parsed(value)

\* the ids of the records of a collection
IdsOf(records) == {records[i].id : i \in 1..Len(records)}

\* C16: when the remote read fails (the request is rejected, or the server
\* answers with an error) while the mirror holds a collection, the read
\* returns that collection, leaves the mirror as it was, and what it returns
\* differs from whatever a read that the server answered could return.
C16_Fallback ==
    (MirrorRead /\ last.response.status \in Failed /\ last.stored # <<>>) =>
        /\ last.returned = Cached(last.key, last.stored)
        /\ localStorage[last.key] = last.stored
        /\ \A body \in BodiesOf(last.key) :
              ReadReturn(last.key, last.stored, Ok(body)) # last.returned

C20_OtherLoadsPopulate ==
    /\ (last.op = "loadData" /\ last.arg = "menu") =>
          ordersView[last.client] = getOrders
    /\ (last.op = "loadData" /\ last.arg = "orders") =>
          menuView[last.client] = menu_items

\* C21: once a component has stopped observing, by its cleanup or because
\* its effect failed during setup, none of the channels it opened is still
\* open, whether its first load succeeded, failed or has not settled yet, and
\* whatever the other components do with channels of the same topic.
C21_Unsubscribed ==
    \A comp \in Components :
        phase[comp] \in {"stopped", "failed"} =>
            ~ \E channel \in channels : channel.owner = comp

\* C22: the webhook of an order is POSTed only when its three inserts took
\* effect and the settings row is enabled with a url; when the POST is not
\* delivered (the request fails, or the endpoint answers with an error
\* status) the failure is logged, createOrder returns the order, and the
\* order, its items and its ticket stay in the store.
C22_WebhookSwallowed ==
    last.op = "createOrder" =>
        /\ last.order \in posts =>
               /\ createOrderWrites(last.items, "none").kds
               /\ last.res = "ok"
               /\ webhook_settings.is_enabled /\ webhook_settings.url # ""
        /\ (last.order \in posts /\ last.arg # "ok") =>
               /\ last.order \in console
               /\ last.res = "ok"
               /\ last.order \in DOMAIN orders
               /\ Len(ItemsOf(last.order)) = Len(last.items)
               /\ Len(TicketsOf(last.order)) = 1

\* C23: a command that reported failure leaves the clients' collections as
\* they were, at once and after the events and refreshes it caused.  A
\* failed status command leaves the order as it was; and since a createOrder
\* that stored no ticket reported failure, and the order was in no
\* collection before it, no collection ever lists an order without ticket.
C23_FailureInvisible ==
    /\ (last.op \in {"completeOrder", "cancelOrder"} /\ last.res = "error") =>
            orders[last.order] = last.beforeOrder
    /\ \A c \in Clients : \A i \in DOMAIN ordersView[c] :
            TicketsOf(ordersView[c][i].id) # <<>>

\* C24: the cost column of every menu item is the sum of the costs of the
\* ingredient rows stored for it.
C24_CostIsSum ==
    \A m \in MenuIds : menu_item_cost[m] = SumCosts(ingredients[m])

\* C25: an order carries a payment method only while its status is
\* completed; a pending or a cancelled order has payment null, also after a
\* complete and a cancel of two clients on the same pending order.
C25_PaymentOnlyCompleted ==
    \A o \in DOMAIN orders :
        orders[o].payment # NULL => orders[o].status = "completed"

\* C26: every record of a component's orders collection has its items and
\* its kds_tickets arrays, also between an orders event and the refresh
\* that follows it.
C26_RecordsJoined ==
    \A c \in Clients : \A i \in DOMAIN ordersView[c] : ordersView[c][i].joined

\* C27: a read of the materials, the menu items or the orders that the
\* server answered returns the server's collection, also an empty one.
C27_ServerCollection ==
    (last.op = "getAll" /\ last.response.status = "ok") =>
        last.returned = Processed(last.key, last.response.body)

\* the columns in which the kitchen display of client c shows order o
ColumnsOf(c, o) == {ordersView[c][i].column : i \in PendingCards(c, o)}

\* C28: in every state of a kitchen display's collection, an order listed
\* as pending is shown in exactly one column, the one of the status of the
\* ticket in its record (new without ticket), and an order listed as
\* completed or cancelled is shown in no column.
C28_OneColumn ==
    \A c \in Clients : \A i \in DOMAIN ordersView[c] :
        LET order == ordersView[c][i]
        IN IF order.status = "pending"
           THEN /\ order.column \in TicketStatus
                /\ ColumnsOf(c, order.id) = {order.column}
           ELSE order.column = NULL

\* how many entries of a json array have the id
Entries(array, id) == Cardinality({k \in 1..Len(array) : array[k].id = id})

\* C29: the row of the read-model for an order has each of the order's
\* order_items exactly once in items and each of its tickets exactly once in
\* kds_tickets, and nothing else.
C29_EachRowOnce ==
    \A o \in DOMAIN orders :
        LET row == v_orders_with_items(o)
        IN /\ Len(row.items) = Len(ItemsOf(o))
           /\ Len(row.kds_tickets) = Len(TicketsOf(o))
           /\ \A i \in 1..Len(ItemsOf(o)) : Entries(row.items, i) = 1
           /\ \A t \in 1..Len(TicketsOf(o)) : Entries(row.kds_tickets, t) = 1

\* C30: no PIN is verified while five failed verifications in a row are
\* less than 15 minutes old; a valid PIN clears the failure counter and
\* authenticates the session; the counter never passes five.
C30_Lockout ==
    /\ loginAttempts.count <= MAX_ATTEMPTS
    /\ last.op = "verifyPin" =>
           /\ last.arg # "locked"
           /\ last.res = "valid" =>
                  /\ loginAttempts = NoAttempts
                  /\ attempts[last.client] = NoAttempts
                  /\ isAuthenticated /\ screen[last.client] = "dashboard"

====
